---- MODULE Spec2Model ----
(***************************************************************************)
(* CommunityDigitalTwin (src/app.py): the archetype classifier, the        *)
(* training of the segment -> archetype tables and the generation of the   *)
(* synthetic population, together with the call site that runs them.       *)
(*                                                                         *)
(* Text is a sequence of one-character strings, so that str.lower, the     *)
(* `in` substring test, str.replace and float() are computed and not       *)
(* assumed.  A table cell is a record [t, s, n]: t is the Python type of   *)
(* the cell ("str", "int", "float" for a whole-valued float, "nan"), s its *)
(* text and n its number.                                                  *)
(***************************************************************************)
EXTENDS Integers, Sequences, FiniteSets, TLC

VARIABLES
    profiles_prob,         \* self.profiles_prob
    global_prob,           \* self.global_prob
    synthetic_population,  \* self.synthetic_population
    df_e,                  \* the survey frame (fit adds Texto_Full and Perfil to it)
    df_c,                  \* the census frame
    ret,                   \* the last call on the engine: its arguments and outcome
    log,                   \* per census row of the last generate: what lines 143-152 did
    last_fit               \* how the engine's most recent fit ended: "none", "ok", "failed"

vars == <<profiles_prob, global_prob, synthetic_population, df_e, df_c, ret, log, last_fit>>

-----------------------------------------------------------------------------
(* Bounds of the model.                                                    *)

MaxRows == 2        \* respondents of a survey frame
MaxEntries == 2     \* rows of a census frame

-----------------------------------------------------------------------------
(* Text.                                                                   *)

\* The characters of the model in code point order (what the crosstab's sorted
\* index compares): punctuation, digits, A-Z, a-z, then the accented letters.
Alphabet ==
    << " ", ",", "-", ".", "/", "0", "1", "2", "3", "4", "5", "6", "7", "8", "9",
       "A", "B", "C", "D", "E", "F", "G", "H", "I", "J", "K", "L", "M",
       "N", "O", "P", "Q", "R", "S", "T", "U", "V", "W", "X", "Y", "Z",
       "a", "b", "c", "d", "e", "f", "g", "h", "i", "j", "k", "l", "m",
       "n", "o", "p", "q", "r", "s", "t", "u", "v", "w", "x", "y", "z",
       "Ú", "ñ", "ó", "ú" >>

Chars == {Alphabet[i] : i \in 1..Len(Alphabet)}

\* ord(c), as the rank of c in Alphabet
Ord == [c \in Chars |-> CHOOSE i \in 1..Len(Alphabet) : Alphabet[i] = c]

\* str.lower on one character
LowerChar ==
    [c \in Chars |->
        IF Ord[c] >= Ord["A"] /\ Ord[c] <= Ord["Z"] THEN Alphabet[Ord[c] + (Ord["a"] - Ord["A"])]
        ELSE IF c = "Ú" THEN "ú"
        ELSE c]

Lower(s) == [i \in 1..Len(s) |-> LowerChar[s[i]]] \o << >>

\* Python's `sub in s`
Contains(sub, s) ==
    \E i \in 0..(Len(s) - Len(sub)) : SubSeq(s, i + 1, i + Len(sub)) = sub

\* s.replace(ch, '')
Remove(s, ch) == SelectSeq(s, LAMBDA c : c # ch)

RECURSIVE Join(_, _)
\* sep.join(parts)
Join(parts, sep) ==
    IF Len(parts) = 0 THEN << >>
    ELSE IF Len(parts) = 1 THEN parts[1]
    ELSE parts[1] \o sep \o Join(Tail(parts), sep)

\* Lexicographic order on text by code point
RECURSIVE StrLess(_, _)
StrLess(a, b) ==
    IF Len(b) = 0 THEN FALSE
    ELSE IF Len(a) = 0 THEN TRUE
    ELSE IF a[1] = b[1] THEN StrLess(Tail(a), Tail(b))
    ELSE Ord[a[1]] < Ord[b[1]]

Digits == {"0", "1", "2", "3", "4", "5", "6", "7", "8", "9"}
DigitVal(c) == Ord[c] - Ord["0"]

RECURSIVE DigitsToNat(_)
DigitsToNat(s) ==
    IF Len(s) = 0 THEN 0
    ELSE 10 * DigitsToNat(SubSeq(s, 1, Len(s) - 1)) + DigitVal(s[Len(s)])

RECURSIVE NatToDigits(_)
NatToDigits(n) ==
    IF n < 10 THEN << Alphabet[Ord["0"] + n] >>
    ELSE NatToDigits(n \div 10) \o << Alphabet[Ord["0"] + (n % 10)] >>

-----------------------------------------------------------------------------
(* Cells and numbers.                                                      *)

StrCell(s) == [t |-> "str", s |-> s, n |-> 0]
IntCell(n) == [t |-> "int", s |-> << >>, n |-> n]
FloatCell(n) == [t |-> "float", s |-> << >>, n |-> n]   \* the float n.0
NaNCell == [t |-> "nan", s |-> << >>, n |-> 0]

\* A parsed number: a value, NaN, or the ValueError of the conversion.
Num(n) == [k |-> "num", n |-> n]
NaN == [k |-> "nan", n |-> 0]
ValueError == [k |-> "ValueError", n |-> 0]

\* str(cell)
Str(cell) ==
    CASE cell.t = "str" -> cell.s
      [] cell.t = "int" ->
            IF cell.n < 0 THEN <<"-">> \o NatToDigits(-cell.n) ELSE NatToDigits(cell.n)
      [] cell.t = "float" ->
            (IF cell.n < 0 THEN <<"-">> \o NatToDigits(-cell.n) ELSE NatToDigits(cell.n))
                \o <<".", "0">>
      [] OTHER -> <<"n", "a", "n">>

\* float(s) for the texts of the model: an optional sign and digits, or "nan";
\* anything else (the empty text, letters, a lone sign) raises ValueError.
ParseFloat(s) ==
    LET neg == Len(s) > 0 /\ s[1] = "-"
        body == IF neg THEN Tail(s) ELSE s
    IN  IF s = <<"n", "a", "n">> THEN NaN
        ELSE IF Len(body) > 0 /\ \A i \in 1..Len(body) : body[i] \in Digits
             THEN Num(IF neg THEN -DigitsToNat(body) ELSE DigitsToNat(body))
             ELSE ValueError

\* pd.to_numeric(cell, errors='coerce'): a number stays, text is parsed, and
\* what cannot be parsed is NaN.
ToNumeric(cell) ==
    CASE cell.t \in {"int", "float"} -> Num(cell.n)
      [] cell.t = "str" ->
            LET p == ParseFloat(cell.s) IN IF p.k = "num" THEN p ELSE NaN
      [] OTHER -> NaN

-----------------------------------------------------------------------------
(* The classifier (assign_profile).                                        *)

cancha == <<"c", "a", "n", "c", "h", "a">>
luz == <<"l", "u", "z">>
banio == <<"b", "a", "ñ", "o">>
ganar == <<"g", "a", "n", "a", "r">>
compet == <<"c", "o", "m", "p", "e", "t">>
torneo == <<"t", "o", "r", "n", "e", "o">>
social == <<"s", "o", "c", "i", "a", "l">>
amigos == <<"a", "m", "i", "g", "o", "s">>
profe == <<"p", "r", "o", "f", "e">>
clase == <<"c", "l", "a", "s", "e">>

HighScore == 6
LowScore == 4

\* n >= 6 and n <= 4 on a coerced score: every comparison with NaN is False
Ge(x, k) == x.k = "num" /\ x.n >= k
Le(x, k) == x.k = "num" /\ x.n <= k

\* assign_profile with the competitive rule tried before the infrastructure rule
assign_profile_competitive_first(t, score) ==
    LET n == ToNumeric(score)
    IN  IF Contains(ganar, t) \/ Contains(compet, t) \/ Contains(torneo, t)
            THEN "Competitivo"
        ELSE IF Contains(cancha, t) \/ Contains(luz, t) \/ Contains(banio, t)
            THEN "Crítico Infra"
        ELSE IF Contains(social, t) \/ Contains(amigos, t) THEN "Social"
        ELSE IF Contains(profe, t) \/ Contains(clase, t) THEN "Formativo"
        ELSE IF Ge(n, HighScore) THEN "Satisfecho"
        ELSE IF Le(n, LowScore) THEN "Detractor"
        ELSE "Neutro"

\* assign_profile with strict comparisons, n > 6 and n < 4
assign_profile_strict(t, score) ==
    LET n == ToNumeric(score)
    IN  IF Contains(cancha, t) \/ Contains(luz, t) \/ Contains(banio, t)
            THEN "Crítico Infra"
        ELSE IF Contains(ganar, t) \/ Contains(compet, t) \/ Contains(torneo, t)
            THEN "Competitivo"
        ELSE IF Contains(social, t) \/ Contains(amigos, t) THEN "Social"
        ELSE IF Contains(profe, t) \/ Contains(clase, t) THEN "Formativo"
        ELSE IF Ge(n, HighScore + 1) THEN "Satisfecho"
        ELSE IF Le(n, LowScore - 1) THEN "Detractor"
        ELSE "Neutro"

\* assign_profile without its last line: a score that is neither high nor low
\* falls off the end of the function, which returns None
assign_profile_no_default(t, score) ==
    LET n == ToNumeric(score)
    IN  IF Contains(cancha, t) \/ Contains(luz, t) \/ Contains(banio, t)
            THEN "Crítico Infra"
        ELSE IF Contains(ganar, t) \/ Contains(compet, t) \/ Contains(torneo, t)
            THEN "Competitivo"
        ELSE IF Contains(social, t) \/ Contains(amigos, t) THEN "Social"
        ELSE IF Contains(profe, t) \/ Contains(clase, t) THEN "Formativo"
        ELSE IF Ge(n, HighScore) THEN "Satisfecho"
        ELSE IF Le(n, LowScore) THEN "Detractor"
        ELSE "None"

assign_profile(t, score) ==
    LET n == ToNumeric(score)
    IN  IF Contains(cancha, t) \/ Contains(luz, t) \/ Contains(banio, t)
            THEN "Crítico Infra"
        ELSE IF Contains(ganar, t) \/ Contains(compet, t) \/ Contains(torneo, t)
            THEN "Competitivo"
        ELSE IF Contains(social, t) \/ Contains(amigos, t) THEN "Social"
        ELSE IF Contains(profe, t) \/ Contains(clase, t) THEN "Formativo"
        ELSE IF Ge(n, HighScore) THEN "Satisfecho"
        ELSE IF Le(n, LowScore) THEN "Detractor"
        ELSE "Neutro"

-----------------------------------------------------------------------------
(* Frames.  A survey frame is [rows, Texto_Full, Perfil]: rows are the     *)
(* uploaded records, Texto_Full and Perfil the columns fit adds (<< >>     *)
(* while the column does not exist).  A census frame is a sequence of      *)
(* records.                                                                *)

SurveyColumns == {"Rama", "NPS", "Comentario", "Motivo"}
CensusColumns == {"Grupo", "Cantidad"}

Labels ==
    {"Crítico Infra", "Competitivo", "Social", "Formativo",
     "Satisfecho", "Detractor", "Neutro"}

\* A weight count/size, kept as the fraction the normalisation computes.
Weight(num, den) == [num |-> num, den |-> den]
NoDist == [l \in Labels |-> Weight(0, 0)]

\* None, as the value of each of the three fields after __init__
NoTable == [kind |-> "None", index |-> << >>, columns |-> {}, rows |-> << >>]
NoSeries == [kind |-> "None", index |-> {}, dist |-> NoDist]
NoPopulation == [kind |-> "None", blocks |-> << >>]

\* df[cols_text].fillna('').astype(str).agg(' '.join, axis=1).str.lower(), one row
Texto(row, cols_text) ==
    Lower(Join([j \in 1..Len(cols_text) |->
                    IF row[cols_text[j]].t = "nan" THEN << >>
                    ELSE Str(row[cols_text[j]])],
               <<" ">>))

RECURSIVE SortTexts(_)
\* the sorted index of a cross-tabulation
SortTexts(S) ==
    IF S = {} THEN << >>
    ELSE LET m == CHOOSE x \in S : \A y \in S \ {x} : StrLess(x, y)
         IN  <<m>> \o SortTexts(S \ {m})

\* the cross-tabulation with normalize='all': each count over the whole sample
CrosstabNormalizeAll(rows, col_rama, perfil) ==
    LET kept == {i \in 1..Len(rows) : rows[i][col_rama].t # "nan"}
        seg(i) == Str(rows[i][col_rama])
        index == SortTexts({seg(i) : i \in kept})
        count(s, l) == Cardinality({i \in kept : seg(i) = s /\ perfil[i] = l})
    IN  [kind |-> "DataFrame",
         index |-> index,
         columns |-> {perfil[i] : i \in kept},
         rows |-> [k \in 1..Len(index) |->
                      [l \in Labels |-> Weight(count(index[k], l), Cardinality(kept))]]]

\* pd.crosstab(df[col_rama], df['Perfil'], normalize='index'): one row per
\* segment value that is not NaN, in sorted order; one column per label seen on
\* those rows; each cell the label's count in the segment over the segment's size.
Crosstab(rows, col_rama, perfil) ==
    LET kept == {i \in 1..Len(rows) : rows[i][col_rama].t # "nan"}
        seg(i) == Str(rows[i][col_rama])
        index == SortTexts({seg(i) : i \in kept})
        size(s) == Cardinality({i \in kept : seg(i) = s})
        count(s, l) == Cardinality({i \in kept : seg(i) = s /\ perfil[i] = l})
    IN  [kind |-> "DataFrame",
         index |-> index,
         columns |-> {perfil[i] : i \in kept},
         rows |-> [k \in 1..Len(index) |->
                      [l \in Labels |-> Weight(count(index[k], l), size(index[k]))]]]

\* df['Perfil'].value_counts(normalize=True)
ValueCounts(perfil) ==
    LET count(l) == Cardinality({i \in 1..Len(perfil) : perfil[i] = l})
    IN  [kind |-> "Series",
         index |-> {perfil[i] : i \in 1..Len(perfil)},
         dist |-> [l \in Labels |-> Weight(count(l), Len(perfil))]]

\* fit (lines 112-137) on a frame: the exception it raises ("None" when it
\* returns True), the frame as it leaves it, and the two tables it assigns.
\* A column that does not exist raises KeyError where the code first reads it:
\* the text columns at line 114, the score column at line 119 (inside apply),
\* the segment column at line 135.
FitResult(df, col_rama, col_nps, cols_text) ==
    LET n == Len(df.rows)
        \* (\o << >> makes each column a tuple of computed values)
        texto == [i \in 1..n |-> Texto(df.rows[i], cols_text)] \o << >>
        perfil == [i \in 1..n |-> assign_profile(texto[i], df.rows[i][col_nps])] \o << >>
    IN  IF \E j \in 1..Len(cols_text) : cols_text[j] \notin SurveyColumns
            THEN [exc |-> "KeyError", df |-> df,
                  profiles_prob |-> NoTable, global_prob |-> NoSeries]
        ELSE IF col_nps \notin SurveyColumns
            THEN [exc |-> "KeyError", df |-> [df EXCEPT !.Texto_Full = texto],
                  profiles_prob |-> NoTable, global_prob |-> NoSeries]
        ELSE IF col_rama \notin SurveyColumns
            THEN [exc |-> "KeyError",
                  df |-> [df EXCEPT !.Texto_Full = texto, !.Perfil = perfil],
                  profiles_prob |-> NoTable, global_prob |-> NoSeries]
        ELSE [exc |-> "None",
              df |-> [df EXCEPT !.Texto_Full = texto, !.Perfil = perfil],
              profiles_prob |-> Crosstab(df.rows, col_rama, perfil),
              global_prob |-> ValueCounts(perfil)]

-----------------------------------------------------------------------------
(* generate (lines 139-154).                                               *)

\* int(float(str(row[col_qty]).replace('.','').replace(',','')))
ParseQty(cell) == ParseFloat(Remove(Remove(Str(cell), "."), ","))

\* the match without the two lower(): str(i) in group
MatchCaseSensitive(table, group) ==
    SelectSeq([k \in 1..Len(table.index) |-> k],
              LAMBDA k : Contains(table.index[k], group))

\* match = [i for i in self.profiles_prob.index if str(i).lower() in group.lower()]
Match(table, group) ==
    SelectSeq([k \in 1..Len(table.index) |-> k],
              LAMBDA k : Contains(Lower(table.index[k]), Lower(group)))

Skipped(exc, group, qty) ==
    [exc |-> exc, group |-> group, qty |-> qty, count |-> 0,
     src |-> "none", seg |-> 0, dist |-> NoDist]

\* One pass of the loop body, lines 143-152: a failing lookup or conversion is
\* swallowed by the bare except and the row contributes nothing; a positive
\* quantity appends qty rows drawn by np.random.choice with the weights dist.
RowStep(table, series, row, col_group, col_qty) ==
    IF col_group \notin CensusColumns THEN Skipped("KeyError", << >>, 0)
    ELSE LET group == Str(row[col_group])
         IN  IF col_qty \notin CensusColumns THEN Skipped("KeyError", group, 0)
             ELSE LET q == ParseQty(row[col_qty])
                  IN  IF q.k # "num" THEN Skipped("ValueError", group, 0)
                      ELSE IF ~(q.n > 0) THEN Skipped("None", group, q.n)
                      ELSE LET match == Match(table, group)
                           IN  [exc |-> "None", group |-> group, qty |-> q.n,
                                count |-> q.n,
                                src |-> IF match # << >> THEN "segment" ELSE "global",
                                seg |-> IF match # << >> THEN match[1] ELSE 0,
                                dist |-> IF match # << >> THEN table.rows[match[1]]
                                         ELSE series.dist]

\* the loop over df_univ.iterrows()
GenerateRun(table, series, census, col_group, col_qty) ==
    [i \in 1..Len(census) |-> RowStep(table, series, census[i], col_group, col_qty)] \o << >>

\* pd.DataFrame(pop): the rows appended for one census row are kept as one
\* block: Count rows of that Group, the Profile of each drawn with the weights
\* Dist; the blocks are in census order.
Population(run) ==
    LET emitted == SelectSeq(run, LAMBDA e : e.count > 0)
    IN  [kind |-> "DataFrame",
         blocks |-> [k \in 1..Len(emitted) |->
                        [Group |-> emitted[k].group, Count |-> emitted[k].count,
                         Dist |-> emitted[k].dist]]]

-----------------------------------------------------------------------------
(* The inputs.                                                             *)

T_futbol == <<"F", "ú", "t", "b", "o", "l">>
T_infantil == <<"F", "ú", "t", "b", "o", "l", " ", "I", "n", "f", "a", "n", "t", "i", "l">>
T_tenis == <<"T", "e", "n", "i", "s">>
T_hola == <<"h", "o", "l", "a">>

Row(rama, nps, comentario, motivo) ==
    [Rama |-> rama, NPS |-> nps, Comentario |-> comentario, Motivo |-> motivo]

\* the respondents a survey frame is made of
Encuesta ==
    << Row(StrCell(T_futbol), IntCell(8),
           StrCell(<<"c","a","n","c","h","a"," ","y"," ","t","o","r","n","e","o">>), NaNCell),
       Row(StrCell(T_futbol), IntCell(8),
           StrCell(<<"T","o","r","n","e","o">>), StrCell(<<"s","i","n"," ","L","U","Z">>)),
       Row(StrCell(T_futbol), IntCell(3),
           StrCell(<<"a","m","i","g","o","s">>), StrCell(<<"c","o","m","p","e","t","i","r">>)),
       Row(StrCell(T_tenis), IntCell(7),
           StrCell(<<"c","l","a","s","e","s">>), StrCell(<<"S","O","C","I","A","L">>)),
       Row(StrCell(T_tenis), IntCell(7), StrCell(T_hola), NaNCell),
       Row(StrCell(T_tenis), IntCell(3), NaNCell, NaNCell),
       Row(StrCell(T_tenis), IntCell(5), StrCell(<< >>), StrCell(T_hola)),
       Row(StrCell(T_infantil), StrCell(<<"6">>), StrCell(T_hola), NaNCell),
       Row(StrCell(T_infantil), IntCell(4), StrCell(T_hola), StrCell(<<"p","r","o","f","e">>)),
       Row(NaNCell, NaNCell, StrCell(T_hola), StrCell(<<"g","a","n","a","r">>)),
       Row(StrCell(<< >>), StrCell(<<"n","/","a">>), StrCell(T_hola),
           StrCell(<<"b","a","ñ","o">>)) >>

Respondents == {Encuesta[i] : i \in 1..Len(Encuesta)}

Frame(rows) == [rows |-> rows, Texto_Full |-> << >>, Perfil |-> << >>]

\* the survey frames of at most MaxRows respondents
Surveys ==
    UNION {{Frame(r) : r \in [1..n -> Respondents]} : n \in 1..MaxRows}

\* two surveys to train the engine that generates: three segments of which one
\* is a prefix of another, and a survey with a blank and a missing segment
TrainingFrames ==
    { Frame(<<Encuesta[2], Encuesta[3], Encuesta[9], Encuesta[5]>>),
      Frame(<<Encuesta[11], Encuesta[10], Encuesta[6]>>) }

G_infantil == T_infantil
G_tenis == <<"T", "E", "N", "I", "S">>
G_natacion == <<"N", "a", "t", "a", "c", "i", "ó", "n">>

Entry(grupo, cantidad) == [Grupo |-> StrCell(grupo), Cantidad |-> cantidad]

\* the census rows: the quantities "1.000", "1,000", 1000, 1000.0, 0, "-3", "",
\* NaN and "n/a", over three groups
Entries ==
    { Entry(G_infantil, StrCell(<<"1", ".", "0", "0", "0">>)),
      Entry(G_tenis, StrCell(<<"1", ",", "0", "0", "0">>)),
      Entry(G_natacion, IntCell(1000)),
      Entry(G_infantil, FloatCell(1000)),
      Entry(G_tenis, IntCell(0)),
      Entry(G_natacion, StrCell(<<"-", "3">>)),
      Entry(G_infantil, StrCell(<< >>)),
      Entry(G_tenis, NaNCell),
      Entry(G_natacion, StrCell(<<"n", "/", "a">>)) }

\* the census frames of at most MaxEntries rows
Censuses == UNION {[1..n -> Entries] : n \in 0..MaxEntries}

\* one census for the runs that explore training
CensusFixtures ==
    { <<Entry(G_infantil, IntCell(2)), Entry(G_natacion, StrCell(<< >>))>> }

\* the column names a caller passes, <<col_rama, col_nps>> \o cols_text: every
\* field named rightly, or one of them by a name the frame does not have
FitChoices ==
    { <<"Rama", "NPS", "Comentario">>, <<"Rama", "NPS", "Comentario", "Motivo">>,
      <<"Otra", "NPS", "Comentario">>, <<"Rama", "Otra", "Comentario">>,
      <<"Rama", "NPS", "Otra">> }
\* what the selectboxes of the page give the button handler
RunChoices ==
    { <<"Rama", "NPS">>, <<"Rama", "NPS", "Comentario">>,
      <<"Rama", "NPS", "Comentario", "Motivo">> }
\* <<col_group, col_qty>>
GenerateChoices == {<<"Grupo", "Cantidad">>, <<"Grupo", "Otra">>}

-----------------------------------------------------------------------------
(* The engine's operations.                                                *)

Call(op, exc, value, cols) == [op |-> op, exc |-> exc, value |-> value, cols |-> cols]

\* the methods class CommunityDigitalTwin defines
Methods == {"__init__", "fit", "generate"}

\* the entry points the callers of the engine ask for
EntryPoints == {"fit", "generate", "augment"}

Init(surveys, censuses) ==
    /\ df_e \in surveys
    /\ df_c \in censuses
    /\ profiles_prob = NoTable
    /\ global_prob = NoSeries
    /\ synthetic_population = NoPopulation
    /\ ret = Call("__init__", "None", "None", << >>)
    /\ log = << >>
    /\ last_fit = "none"

\* bot = CommunityDigitalTwin()
New ==
    /\ profiles_prob' = NoTable
    /\ global_prob' = NoSeries
    /\ synthetic_population' = NoPopulation
    /\ ret' = Call("__init__", "None", "None", << >>)
    /\ log' = << >>
    /\ last_fit' = "none"
    /\ UNCHANGED <<df_e, df_c>>

\* fit with the two fields reset to None on entry, before anything can raise
FitResetsFirst ==
    \E c \in FitChoices :
        \E r \in {FitResult(df_e, c[1], c[2], SubSeq(c, 3, Len(c)))} :
            /\ df_e' = r.df
            /\ profiles_prob' = r.profiles_prob
            /\ global_prob' = r.global_prob
            /\ ret' = Call("fit", r.exc, IF r.exc = "None" THEN "True" ELSE "None", c)
            /\ last_fit' = IF r.exc = "None" THEN "ok" ELSE "failed"
            /\ UNCHANGED <<synthetic_population, df_c, log>>

\* bot.fit(df_e, col_rama, col_nps, cols_text): an exception leaves the fields
\* as they were, since lines 135-136 assign them last
Fit ==
    \E c \in FitChoices :
        \E r \in {FitResult(df_e, c[1], c[2], SubSeq(c, 3, Len(c)))} :
            /\ df_e' = r.df
            /\ profiles_prob' = IF r.exc = "None" THEN r.profiles_prob ELSE profiles_prob
            /\ global_prob' = IF r.exc = "None" THEN r.global_prob ELSE global_prob
            /\ ret' = Call("fit", r.exc, IF r.exc = "None" THEN "True" ELSE "None", c)
            /\ last_fit' = IF r.exc = "None" THEN "ok" ELSE "failed"
            /\ UNCHANGED <<synthetic_population, df_c, log>>

\* generate keeping the distribution of the last row it sampled in
\* self.global_prob (self.global_prob = dist in the loop)
GenerateStoresDist ==
    \E c \in GenerateChoices :
        IF profiles_prob.kind = "None"
        THEN /\ ret' = Call("generate", "None", "None", c)
             /\ log' = << >>
             /\ UNCHANGED <<profiles_prob, global_prob, synthetic_population,
                            df_e, df_c, last_fit>>
        ELSE \E run \in {GenerateRun(profiles_prob, global_prob, df_c, c[1], c[2])} :
                 /\ synthetic_population' = Population(run)
                 /\ ret' = Call("generate", "None", "DataFrame", c)
                 /\ log' = run
                 /\ global_prob' =
                        LET blocks == Population(run).blocks
                        IN  IF blocks = << >> THEN global_prob
                            ELSE [global_prob EXCEPT !.dist = blocks[Len(blocks)].Dist]
                 /\ UNCHANGED <<profiles_prob, df_e, df_c, last_fit>>

\* bot.generate(df_c, col_group, col_qty)
Generate ==
    \E c \in GenerateChoices :
        IF profiles_prob.kind = "None"
        THEN /\ ret' = Call("generate", "None", "None", c)
             /\ log' = << >>
             /\ UNCHANGED <<profiles_prob, global_prob, synthetic_population,
                            df_e, df_c, last_fit>>
        ELSE \E run \in {GenerateRun(profiles_prob, global_prob, df_c, c[1], c[2])} :
                 /\ synthetic_population' = Population(run)
                 /\ ret' = Call("generate", "None", "DataFrame", c)
                 /\ log' = run
                 /\ UNCHANGED <<profiles_prob, global_prob, df_e, df_c, last_fit>>

\* The button handler, lines 222-230 and 284-285, on the frames as uploaded
\* (lines 203-204): a new engine, then fit and generate when a text column and a
\* segment column are chosen, else the warning.  The selectboxes offer only the
\* columns of the frames, so every name resolves and fit returns.
Ejecutar ==
    \E c \in RunChoices :
        IF SubSeq(c, 3, Len(c)) = << >>
        THEN /\ ret' = Call("run", "None", "warning", c)
             /\ profiles_prob' = NoTable
             /\ global_prob' = NoSeries
             /\ synthetic_population' = NoPopulation
             /\ df_e' = Frame(df_e.rows)
             /\ log' = << >>
             /\ last_fit' = "none"
             /\ UNCHANGED df_c
        ELSE \E r \in {FitResult(Frame(df_e.rows), c[1], c[2], SubSeq(c, 3, Len(c)))} :
             \E run \in {GenerateRun(r.profiles_prob, r.global_prob, df_c, "Grupo", "Cantidad")} :
                 /\ ret' = Call("run", "None", "DataFrame", c)
                 /\ profiles_prob' = r.profiles_prob
                 /\ global_prob' = r.global_prob
                 /\ synthetic_population' = Population(run)
                 /\ df_e' = r.df
                 /\ log' = run
                 /\ last_fit' = "ok"
                 /\ UNCHANGED df_c

\* a call of an entry point the class does not define: the attribute lookup
\* raises AttributeError and nothing runs
Invoke ==
    \E m \in EntryPoints \ Methods :
        /\ ret' = Call(m, "AttributeError", "None", << >>)
        /\ UNCHANGED <<profiles_prob, global_prob, synthetic_population,
                       df_e, df_c, log, last_fit>>

Next == New \/ Fit \/ Generate \/ Ejecutar \/ Invoke

NextFit == New \/ Fit \/ Ejecutar

NextGen == New \/ Fit \/ Generate

\* every operation, on the training surveys and one census
Spec == Init(TrainingFrames, CensusFixtures) /\ [][Next]_vars

\* training, on every survey and one census
SpecFit == Init(Surveys, CensusFixtures) /\ [][NextFit]_vars

\* generation, on the training surveys and every census
SpecGen == Init(TrainingFrames, Censuses) /\ [][NextGen]_vars

-----------------------------------------------------------------------------
(* What the claims speak of.                                               *)

\* the state right after a fit that returned (alone or inside the button handler)
Trained == ret.op \in {"fit", "run"} /\ ret.exc = "None" /\ ret.value # "warning"
\* the score cell of respondent i in that fit
ScoreOf(i) == df_e.rows[i][ret.cols[2]]
\* the segment cell of respondent i in that fit
SegmentOf(i) == df_e.rows[i][ret.cols[1]]
RowIds == 1..Len(df_e.rows)

\* the state right after a generate that ran its loop with both columns resolved
Generated ==
    /\ ret.op = "generate"
    /\ ret.value = "DataFrame"
    /\ ret.cols = <<"Grupo", "Cantidad">>

\* the four text rules in the order the specification gives them
RuleOrder ==
    << [label |-> "Crítico Infra", keywords |-> {cancha, luz, banio}],
       [label |-> "Competitivo", keywords |-> {ganar, compet, torneo}],
       [label |-> "Social", keywords |-> {social, amigos}],
       [label |-> "Formativo", keywords |-> {profe, clase}] >>

Fires(k, t) == \E kw \in RuleOrder[k].keywords : Contains(kw, t)
NoRuleFires(t) == \A k \in 1..Len(RuleOrder) : ~Fires(k, t)

\* C4: the text rules apply in the order infrastructure, competitive, social,
\* formative and the first that matches wins: a respondent is labelled with the
\* earliest category one of whose keywords its text contains, whatever the score.
C4_FirstRuleWins ==
    Trained =>
        \A i \in RowIds : \A k \in 1..Len(RuleOrder) :
            (Fires(k, df_e.Texto_Full[i]) /\ \A j \in 1..(k - 1) : ~Fires(j, df_e.Texto_Full[i]))
                => df_e.Perfil[i] = RuleOrder[k].label

\* C4 witness: a text with an infrastructure and a competitive keyword and the
\* score 8 has been labelled infrastructure-critical.
C4_Witness ==
    /\ Trained
    /\ \E i \in RowIds :
          /\ Fires(1, df_e.Texto_Full[i]) /\ Fires(2, df_e.Texto_Full[i])
          /\ ToNumeric(ScoreOf(i)) = Num(8)
          /\ df_e.Perfil[i] = "Crítico Infra"

\* C5: when no text rule fires the score alone decides: 6 or more is Satisfecho,
\* 4 or less is Detractor, and everything else (5, a missing or an unparseable
\* score) is Neutro.
C5_ScoreFallback ==
    Trained =>
        \A i \in RowIds :
            NoRuleFires(df_e.Texto_Full[i]) =>
                LET n == ToNumeric(ScoreOf(i))
                IN  df_e.Perfil[i] =
                        IF n.k = "num" /\ n.n >= 6 THEN "Satisfecho"
                        ELSE IF n.k = "num" /\ n.n <= 4 THEN "Detractor"
                        ELSE "Neutro"

\* C5 witness: with no keyword in the text, a score of 6 has given Satisfecho and
\* a missing score has given Neutro.
C5_Witness ==
    /\ Trained
    /\ \E i \in RowIds :
          /\ NoRuleFires(df_e.Texto_Full[i])
          /\ ToNumeric(ScoreOf(i)) = Num(6)
          /\ df_e.Perfil[i] = "Satisfecho"
    /\ \E i \in RowIds :
          /\ NoRuleFires(df_e.Texto_Full[i])
          /\ ScoreOf(i).t = "nan"
          /\ df_e.Perfil[i] = "Neutro"

\* C6: the classifier is total: every respondent of a fitted frame, whatever its
\* text and score, carries exactly one label of the fixed set of seven, and two
\* respondents with the same text and score carry the same label.
C6_ClassifierTotal ==
    Trained =>
        /\ Len(df_e.Perfil) = Len(df_e.rows)
        /\ \A i \in RowIds :
              df_e.Perfil[i] \in {"Crítico Infra", "Competitivo", "Social", "Formativo",
                                  "Satisfecho", "Detractor", "Neutro"}
        /\ \A i, j \in RowIds :
              (df_e.Texto_Full[i] = df_e.Texto_Full[j] /\ ScoreOf(i) = ScoreOf(j))
                  => df_e.Perfil[i] = df_e.Perfil[j]

\* C6 witness: a respondent with an unparseable score and no keyword, and one with
\* an empty text, have both been labelled.
C6_Witness ==
    /\ Trained
    /\ \E i \in RowIds :
          /\ ScoreOf(i).t = "str" /\ ToNumeric(ScoreOf(i)) = NaN
          /\ NoRuleFires(df_e.Texto_Full[i])
          /\ df_e.Perfil[i] = "Neutro"
    /\ \E i \in RowIds : df_e.Texto_Full[i] = << >> /\ df_e.Perfil[i] \in Labels

RECURSIVE SumNum(_, _)
\* the sum of the numerators of a distribution over the labels S
SumNum(dist, S) ==
    IF S = {} THEN 0
    ELSE LET l == CHOOSE x \in S : TRUE IN dist[l].num + SumNum(dist, S \ {l})

\* the respondents of segment text s, and those of them labelled l
Members(s) == {i \in RowIds : SegmentOf(i).t # "nan" /\ Str(SegmentOf(i)) = s}
MembersLabelled(s, l) == {i \in Members(s) : df_e.Perfil[i] = l}

\* row k of the table holds, for every label, the label's count in the segment
\* over the segment's size, and the weights sum to 1
RowIsFrequency(k) ==
    LET s == profiles_prob.index[k]
        row == profiles_prob.rows[k]
    IN  /\ Members(s) # {}
        /\ \A l \in Labels :
              row[l] = Weight(Cardinality(MembersLabelled(s, l)), Cardinality(Members(s)))
        /\ SumNum(row, Labels) = Cardinality(Members(s))

\* the global weights are the label counts over all respondents, and sum to 1
GlobalIsFrequency ==
    /\ \A l \in Labels :
          global_prob.dist[l] =
              Weight(Cardinality({i \in RowIds : df_e.Perfil[i] = l}), Len(df_e.rows))
    /\ SumNum(global_prob.dist, Labels) = Len(df_e.rows)

\* C7 as stated: after a successful fit every segment value on a respondent, a
\* missing or blank one included, has a row in the table, each row holds the
\* segment's label frequencies and sums to 1, and so do the global weights.
C7_EverySegmentHasRow ==
    Trained =>
        /\ \A i \in RowIds :
              \E k \in 1..Len(profiles_prob.index) : profiles_prob.index[k] = Str(SegmentOf(i))
        /\ \A k \in 1..Len(profiles_prob.index) : RowIsFrequency(k)
        /\ GlobalIsFrequency

\* C7 amended: after a successful fit every segment value that is not missing (a
\* blank one included) has exactly one row, and a respondent whose segment is
\* missing has none and counts only in the global weights; each row holds the
\* segment's label frequencies and sums to 1, and the global weights are the
\* label frequencies over all respondents and sum to 1.
C7_PresentSegmentsHaveRows ==
    Trained =>
        /\ profiles_prob.kind = "DataFrame" /\ global_prob.kind = "Series"
        /\ \A i \in RowIds :
              Cardinality({k \in 1..Len(profiles_prob.index) :
                              profiles_prob.index[k] = Str(SegmentOf(i))})
                  = IF SegmentOf(i).t = "nan" THEN 0 ELSE 1
        /\ \A k \in 1..Len(profiles_prob.index) : RowIsFrequency(k)
        /\ GlobalIsFrequency

\* C7 witness: a fit on a survey with a blank segment and a missing segment has
\* built a table with the blank segment's row only.
C7_Witness ==
    /\ Trained
    /\ \E i \in RowIds : SegmentOf(i).t = "nan"
    /\ \E i \in RowIds : SegmentOf(i) = StrCell(<< >>)
    /\ profiles_prob.index = << << >> >>

\* C8: a fit whose segment or score column does not resolve raises KeyError and
\* leaves profiles_prob and global_prob exactly as they were; nothing is
\* generated by that call.
C8_FailedFitKeepsModel ==
    [][ (ret'.op = "fit" /\ (ret'.cols[1] \notin SurveyColumns \/ ret'.cols[2] \notin SurveyColumns))
            => /\ ret'.exc = "KeyError"
               /\ profiles_prob' = profiles_prob
               /\ global_prob' = global_prob
               /\ synthetic_population' = synthetic_population
               /\ log' = log ]_vars

\* C8 witness: a fit with an unresolvable column has failed on an engine that an
\* earlier fit had trained, and the tables are still there.
C8_Witness ==
    /\ ret.op = "fit" /\ ret.exc = "KeyError"
    /\ ret.cols[1] \notin SurveyColumns \/ ret.cols[2] \notin SurveyColumns
    /\ profiles_prob.kind = "DataFrame"
    /\ global_prob.kind = "Series"

\* the integer a quantity cell denotes: a number is itself, a text is its digits
\* without thousands separators, anything else denotes none (0)
Denoted(cell) ==
    CASE cell.t \in {"int", "float"} -> cell.n
      [] cell.t = "str" ->
            LET p == ParseFloat(Remove(Remove(cell.s, "."), ","))
            IN  IF p.k = "num" THEN p.n ELSE 0
      [] OTHER -> 0

\* C1 as stated: generate emits for each census row exactly the quantity Q its
\* cell denotes when Q > 0 ("1.000", "1,000", 1000, 1000.0 all denote 1000), and
\* nothing when the quantity is zero, negative, empty, NaN or unparseable.
C1_CountIsQuantity ==
    Generated =>
        \A i \in 1..Len(df_c) :
            log[i].count = IF Denoted(df_c[i].Cantidad) > 0 THEN Denoted(df_c[i].Cantidad) ELSE 0

\* the trained segments that match a group label: those whose label, lowercased,
\* is a substring of the lowercased group label
Matching(group) ==
    {k \in 1..Len(profiles_prob.index) :
        Contains(Lower(profiles_prob.index[k]), Lower(group))}

\* the distribution the specification selects for a group label
Selected(group) ==
    IF Matching(group) = {} THEN global_prob.dist
    ELSE profiles_prob.rows[CHOOSE k \in Matching(group) : \A j \in Matching(group) : k <= j]

\* C2: for every census row that is generated, the distribution sampled is the
\* row of the first trained segment (in the table's order) whose label is,
\* case-insensitively, a substring of the group label, and the global fallback
\* when no trained segment matches; the population's blocks carry no other.
C2_FirstMatchOrGlobal ==
    Generated =>
        /\ \A i \in 1..Len(df_c) :
              log[i].count > 0 =>
                  /\ log[i].dist = Selected(Str(df_c[i].Grupo))
                  /\ log[i].src = IF Matching(Str(df_c[i].Grupo)) = {} THEN "global" ELSE "segment"
        /\ \A b \in 1..Len(synthetic_population.blocks) :
              synthetic_population.blocks[b].Dist = Selected(synthetic_population.blocks[b].Group)

\* C2 witness: with "Fútbol" and "Fútbol Infantil" both trained, the group
\* "Fútbol Infantil" has been given the row of "Fútbol", a group in capitals the
\* row of its segment, or a group without a match the global weights.
C2_Witness ==
    /\ Generated
    /\ \E i \in 1..Len(df_c) :
          /\ log[i].count > 0
          /\ Str(df_c[i].Grupo) = G_infantil
          /\ Cardinality(Matching(G_infantil)) = 2
          /\ profiles_prob.index[log[i].seg] = T_futbol
    /\ \E i \in 1..Len(df_c) :
          /\ log[i].count > 0
          /\ Matching(Str(df_c[i].Grupo)) = {}
          /\ log[i].dist = global_prob.dist

\* C3 as stated: a generate that follows no fit, or a fit that failed, fails with
\* a "model not trained" error: it returns neither None nor a population.
C3_UntrainedGenerateFails ==
    (ret.op = "generate" /\ last_fit # "ok") => ret.exc = "ModelNotTrained"

\* C9 as stated: the engine has an augmentation-mode entry point, and a call of
\* it returns a table (the real sample, when the total asked for does not
\* exceed the sample's size).
C9_AugmentationReturnsSample ==
    ret.op = "augment" => (ret.exc = "None" /\ ret.value = "DataFrame")

\* C10: generate never changes the trained model: across every generate call,
\* whatever its rows do, profiles_prob and global_prob (and the frames) are what
\* they were before the call.
C10_GenerateKeepsModel ==
    [][ ret'.op = "generate"
            => /\ profiles_prob' = profiles_prob
               /\ global_prob' = global_prob
               /\ df_e' = df_e
               /\ df_c' = df_c ]_vars

\* C10 witness: a generate on a trained engine has skipped one row on an
\* exception, emitted another, and the engine still holds its tables.
C10_Witness ==
    /\ ret.op = "generate"
    /\ profiles_prob.kind = "DataFrame"
    /\ global_prob.kind = "Series"
    /\ \E i \in 1..Len(log) : log[i].exc = "ValueError"
    /\ \E i \in 1..Len(log) : log[i].count > 0
    /\ synthetic_population.kind = "DataFrame"

====
